---- MODULE Spec2Model ----
(***************************************************************************)
(* A model of experimentator's design.py (Design, DesignTree) and          *)
(* section.py (ExperimentSection).                                         *)
(*                                                                         *)
(* Five specifications share the module:                                   *)
(*   SpecSection  the section tree: construction, append_design,           *)
(*                append_child, add_data, generate_data;                   *)
(*   SpecInsert   the same without add_data (insertions only);             *)
(*   SpecTree     the DesignTree constructor, statement by statement, and  *)
(*                the peel operation (__next__) on the built tree;         *)
(*   SpecDesign   Design.first_pass on one Design with a design matrix;    *)
(*   SpecPeel     built DesignTree objects with identity: next() and       *)
(*                add_base_level.                                          *)
(*                                                                         *)
(* Values are integers throughout (IV values, branch names, numbering);    *)
(* keys (IV names, level names) are strings.  A context layer is a         *)
(* function from keys to values.                                           *)
(***************************************************************************)
EXTENDS Integers, Sequences, FiniteSets, TLC

VARIABLES
    \* --- section.py ---
    tree,        \* the DesignTree handed to the root ExperimentSection
    sections,    \* the arena of live ExperimentSection objects, by id
    err,         \* the exception the last operation raised, or "none"
    lastOp,      \* the last operation and its arguments
    lastAdd,     \* the last add_data call, while nothing has mutated since
    data,        \* what generate_data yielded, when it was the last call
    ops,         \* number of mutating operations after construction
    \* --- design.py, DesignTree ---
    levels_and_designs,  \* self.levels_and_designs of the tree being built
    other_designs,       \* self.other_designs
    branches,            \* self.branches
    pc,                  \* position in DesignTree.__init__ / first_pass
    new_ivs,             \* new_iv_names / new_iv_values of the running pair
    top_iv,              \* iv_names, iv_values of the top-level loop
    calls,               \* the Design.first_pass / Design.update calls made
    cursor,              \* the tree (or branch map) the last peel returned
    lastPeel,            \* the last peel: its source and its result
    \* --- design.py, Design ---
    design,              \* one Design with a design matrix
    result,              \* what Design.first_pass did on it
    \* --- design.py, DesignTree objects and their copies ---
    heap,                \* the DesignTree objects, by identity
    peels,               \* every next() call: source, result, snapshots
    lastTree             \* the last operation on a tree object

secVars == <<tree, sections, err, lastOp, lastAdd, data, ops>>
treeVars == <<levels_and_designs, other_designs, branches, pc, new_ivs, top_iv,
              calls, cursor, lastPeel>>
desVars == <<design, result>>
heapVars == <<heap, peels, lastTree>>
vars == <<secVars, treeVars, desVars, heapVars>>

(***************************************************************************)
(* Bounds of the model.                                                    *)
(***************************************************************************)
MaxSections == 8
MaxOps == 2

(***************************************************************************)
(* Helpers.                                                                *)
(***************************************************************************)
Reverse(s) == [i \in 1..Len(s) |-> s[Len(s) + 1 - i]]

Range(s) == {s[i] : i \in 1..Len(s)}

\* F applied to the value of x, which is computed once
Bind(x, F(_)) == CHOOSE y \in {F(v) : v \in {x}} : TRUE

EmptyMap == [k \in {} |-> 0]

\* dict.update(): the right operand's items win.
Update(d, items) == items @@ d

(***************************************************************************)
(* DesignTree as the section code sees it: tree[i], len(tree), next(tree). *)
(* A tree is [levels_and_designs, branches, other_designs]; branches is    *)
(* the dict in insertion order, a sequence of <<name, tree>>.              *)
(***************************************************************************)
Level(name, designs) == [name |-> name, design |-> designs]

RECURSIVE DesignTreeLen(_)
DesignTreeLen(t) ==
    Len(t.levels_and_designs)
      + (IF t.branches # <<>> THEN DesignTreeLen(t.branches[1][2]) ELSE 0)

\* A __next__ that hands out the branch map at length 2 only.
NextAtLengthTwo(t) ==
    IF DesignTreeLen(t) = 1
    THEN [kind |-> "StopIteration"]
    ELSE IF Len(t.levels_and_designs) = 1 /\ DesignTreeLen(t) = 2
    THEN [kind |-> "branches", value |-> t.branches]
    ELSE [kind |-> "tree",
          value |-> [t EXCEPT !.levels_and_designs = Tail(@)]]

DesignTreeNext(t) ==
    IF DesignTreeLen(t) = 1
    THEN [kind |-> "StopIteration"]
    ELSE IF Len(t.levels_and_designs) = 1
    THEN [kind |-> "branches", value |-> t.branches]
    ELSE [kind |-> "tree",
          value |-> [t EXCEPT !.levels_and_designs = Tail(@)]]

(***************************************************************************)
(* The design objects the section code is handed.  section.py calls        *)
(* design.order with the context as keyword arguments.  has_order says     *)
(* whether the object has an attribute order at all: an instance of        *)
(* design.py's Design has none (the class defines get_order(data) only).   *)
(* needs are the keyword parameters the callable requires; conds is what   *)
(* it returns (for a Design: what its ordering's get_order returns).       *)
(***************************************************************************)
DesignObj(has_order, needs, conds, extra_data) ==
    [has_order |-> has_order, needs |-> needs, conds |-> conds,
     extra_data |-> extra_data]

\* design.order, called with the context as keyword arguments.
order(d, context) ==
    IF ~d.has_order THEN [err |-> "AttributeError", conds |-> <<>>]
    ELSE IF ~(d.needs \subseteq DOMAIN context)
    THEN [err |-> "TypeError", conds |-> <<>>]
    ELSE [err |-> "none", conds |-> d.conds]

\* Design.get_order(data): the ordering's conditions, each updated with
\* extra_data.
get_order(d, context) ==
    [i \in 1..Len(d.conds) |-> Update(d.conds[i], d.extra_data)]

(***************************************************************************)
(* ExperimentSection.  sections[id].context is the section's own layer     *)
(* (maps[0] of its ChainMap); parent is the section whose layers follow it *)
(* in the chain (0 for the root).                                          *)
(***************************************************************************)
RECURSIVE Context(_, _)
Context(arena, s) ==
    IF s = 0 THEN EmptyMap
    ELSE arena[s].context @@ Context(arena, arena[s].parent)

OK(arena) == [err |-> "none", arena |-> arena]
Raise(e, arena) == [err |-> e, arena |-> arena]

PositionOf(seq, x) == CHOOSE i \in 1..Len(seq) : seq[i] = x

\* A numbering that numbers the newest child only.
NumberLastChild(arena, s) ==
    LET ch == arena[s].children
    IN IF ch = <<>> THEN arena
       ELSE [arena EXCEPT
               ![ch[Len(ch)]].context =
                   Update(@, arena[s].next_level :> Len(ch))]

\* A numbering that also writes the count into the section's own layer.
NumberUpward(arena, s) ==
    LET ch == arena[s].children
    IN [n \in 1..Len(arena) |->
          IF n \in Range(ch)
          THEN [arena[n] EXCEPT
                  !.context = Update(@, arena[s].next_level :> PositionOf(ch, n))]
          ELSE IF n = s
          THEN [arena[n] EXCEPT
                  !.context = Update(@, arena[s].next_level :> Len(ch))]
          ELSE arena[n]]

number_children(arena, s) ==
    LET ch == arena[s].children
    IN [n \in 1..Len(arena) |->
          IF n \in Range(ch)
          THEN [arena[n] EXCEPT
                  !.context = Update(@, arena[s].next_level :> PositionOf(ch, n))]
          ELSE arena[n]]

InsertChild(children, child, to_start) ==
    IF to_start THEN <<child>> \o children ELSE Append(children, child)

\* A front insertion that walks the conditions in their own order.
BatchOrderForward(conds, to_start) == conds

BatchOrder(conds, to_start) ==
    IF to_start THEN Reverse(conds) ELSE conds

RECURSIVE ExperimentSection(_, _, _, _)
RECURSIVE append_designs(_, _, _)
RECURSIVE append_design(_, _, _, _)
RECURSIVE append_children(_, _, _, _)
RECURSIVE append_child(_, _, _, _)

\* ExperimentSection(context, tree): the new object and, below the deepest
\* level, its whole subtree.  t is what the caller passed as tree: a tree,
\* or the branch map next() returns at a heterogeneous level.
ExperimentSection(arena, context, parent, t) ==
    IF t.kind = "branches"
    THEN Raise("KeyError", arena) @@ [id |-> 0]
    ELSE
    LET tr == t.value
        id == Len(arena) + 1
        bottom == DesignTreeLen(tr) = 1
        node == [context |-> context, parent |-> parent, tree |-> tr,
                 level |-> tr.levels_and_designs[1].name,
                 is_bottom_level |-> bottom,
                 children |-> <<>>,
                 has_started |-> FALSE, has_finished |-> FALSE,
                 next_level |-> "None", next_designs |-> <<>>]
    IN IF bottom
       THEN OK(Append(arena, node)) @@ [id |-> id]
       ELSE IF Len(tr.levels_and_designs) < 2
       THEN Raise("IndexError", arena) @@ [id |-> 0]
       ELSE LET full == [node EXCEPT
                           !.next_level = tr.levels_and_designs[2].name,
                           !.next_designs = tr.levels_and_designs[2].design]
                r == append_designs(Append(arena, full), id, full.next_designs)
            IN IF r.err = "none"
               THEN OK(r.arena) @@ [id |-> id]
               ELSE Raise(r.err, arena) @@ [id |-> 0]

\* for design in self.next_designs: self.append_design(design)
append_designs(arena, s, designs) ==
    IF designs = <<>> THEN OK(arena)
    ELSE LET r == append_design(arena, s, Head(designs), FALSE)
         IN IF r.err # "none" THEN r
            ELSE append_designs(r.arena, s, Tail(designs))

append_design(arena, s, d, to_start) ==
    LET o == order(d, Context(arena, s))
    IN IF o.err # "none" THEN Raise(o.err, arena)
       ELSE append_children(arena, s, to_start, BatchOrder(o.conds, to_start))

\* the loop of append_design: one append_child per condition; an exception
\* leaves the children appended so far in place.
append_children(arena, s, to_start, conds) ==
    IF conds = <<>> THEN OK(arena)
    ELSE LET r == append_child(arena, s, to_start, Head(conds))
         IN IF r.err # "none" THEN r
            ELSE append_children(r.arena, s, to_start, Tail(conds))

append_child(arena, s, to_start, context) ==
    LET nx == DesignTreeNext(arena[s].tree)
    IN IF nx.kind = "StopIteration" THEN Raise("StopIteration", arena)
       ELSE LET r == ExperimentSection(arena, context, s, nx)
            IN IF r.err # "none" THEN Raise(r.err, arena)
               ELSE OK(number_children(
                      [r.arena EXCEPT
                         ![s].children = InsertChild(@, r.id, to_start)], s))

\* An add_data that writes into the root's layer instead of its own.
AddDataAtRoot(arena, s, kwargs) ==
    [arena EXCEPT ![1].context = Update(@, kwargs)]

add_data(arena, s, kwargs) ==
    [arena EXCEPT ![s].context = Update(@, kwargs)]

\* generate_data(): the sections whose contexts are yielded, in order.
RECURSIVE generate_sections(_, _)
RECURSIVE generate_from(_, _)

\* A generate_data that yields its own children only when they are leaves.
GenerateShallow(arena, s) ==
    SelectSeq(arena[s].children, LAMBDA c : arena[c].is_bottom_level)

generate_from(arena, children) ==
    IF children = <<>> THEN <<>>
    ELSE LET child == Head(children)
         IN (IF arena[child].is_bottom_level THEN <<child>>
             ELSE generate_sections(arena, child))
            \o generate_from(arena, Tail(children))

generate_sections(arena, s) == generate_from(arena, arena[s].children)

generate_data(arena, s) ==
    LET leaves == generate_sections(arena, s)
    IN [i \in 1..Len(leaves) |->
          [section |-> leaves[i], record |-> Context(arena, leaves[i])]]

(***************************************************************************)
(* design.py, Design.  iv_values holds, per IV, None or a list of values:  *)
(* [none |-> TRUE] or [none |-> FALSE, values |-> <<...>>].  The design    *)
(* matrix is None or a non-empty list of rows of numeric codes.  The       *)
(* ordering is the collaborator of order.py: its first_pass keeps the      *)
(* conditions it is handed and returns the synthetic IV, ((), ()) unless   *)
(* it is non-atomic.                                                       *)
(***************************************************************************)
None == [none |-> TRUE, values |-> <<>>]
Values(vs) == [none |-> FALSE, values |-> vs]
NoMatrix == [none |-> TRUE, rows |-> <<>>]
Matrix(rows) == [none |-> FALSE, rows |-> rows]

\* Python truthiness of an IV's values: None and the empty list are false.
Truthy(v) == ~v.none /\ v.values # <<>>

Ordering(non_atomic, iv_name, iv_values) ==
    [non_atomic |-> non_atomic, iv_name |-> iv_name, iv_values |-> iv_values,
     all_conditions |-> <<>>, passes |-> 0]

\* Ordering.first_pass(all_conditions) -> (iv_name, iv_values)
OrderingFirstPass(o, conditions) ==
    [ordering |-> [o EXCEPT !.all_conditions = conditions, !.passes = @ + 1],
     iv_name |-> IF o.non_atomic THEN o.iv_name ELSE "",
     iv_values |-> IF o.non_atomic THEN o.iv_values ELSE <<>>]

Design(iv_names, iv_values, design_matrix, ordering, extra_data) ==
    [iv_names |-> iv_names, iv_values |-> iv_values,
     design_matrix |-> design_matrix, extra_data |-> extra_data,
     ordering |-> ordering]

RECURSIVE Concat(_)
Concat(ss) == IF ss = <<>> THEN <<>> ELSE Head(ss) \o Concat(Tail(ss))

\* itertools.product(*lists): the last list varies fastest.
RECURSIVE product(_)
product(lists) ==
    IF lists = <<>> THEN << <<>> >>
    ELSE LET rest == product(Tail(lists))
             first == Head(lists)
         IN Concat([i \in 1..Len(first) |->
                      [j \in 1..Len(rest) |-> <<first[i]>> \o rest[j]]])

\* dict(zip(names, values)): a repeated name keeps its last value.
DictZip(names, values) ==
    [k \in Range(names) |->
        values[CHOOSE i \in 1..Len(names) :
                  names[i] = k /\ \A j \in (i + 1)..Len(names) : names[j] # k]]

full_cross(iv_names, iv_values) ==
    LET combos == product([i \in 1..Len(iv_values) |-> iv_values[i].values])
    IN [c \in 1..Len(combos) |-> DictZip(iv_names, combos[c])]

\* np.unique(column): the distinct codes, ascending.
RECURSIVE SortedSeq(_)
SortedSeq(S) ==
    IF S = {} THEN <<>>
    ELSE LET m == CHOOSE x \in S : \A y \in S : x <= y
         IN <<m>> \o SortedSeq(S \ {m})

Column(rows, c) == [r \in 1..Len(rows) |-> rows[r][c]]

Unique(column) == SortedSeq(Range(column))

\* iv_values and not len(iv_values) == len(values)
Mismatch(iv_values, values) ==
    Truthy(iv_values) /\ Len(iv_values.values) # Len(values)

_parse_design_matrix(d) ==
    LET rows == d.design_matrix.rows
        ncol == Len(rows[1])
        values_per_factor == [c \in 1..ncol |-> Unique(Column(rows, c))]
        \* zip stops at the shorter of self.iv_values, values_per_factor
        zipped == 1..(IF Len(d.iv_values) < ncol THEN Len(d.iv_values) ELSE ncol)
        decoded(r, c) ==
            IF Truthy(d.iv_values[c])
            THEN d.iv_values[c].values[PositionOf(values_per_factor[c], rows[r][c])]
            ELSE rows[r][c]
    IN IF \E c \in zipped : Mismatch(d.iv_values[c], values_per_factor[c])
       THEN [err |-> "ValueError", conditions |-> <<>>]
       ELSE [err |-> "none",
             conditions |->
                [r \in 1..Len(rows) |->
                    Update(d.extra_data,
                           DictZip(SubSeq(d.iv_names, 1, Cardinality(zipped)),
                                   [c \in zipped |-> decoded(r, c)]))]]

\* Design.first_pass(): [err, design, iv_name, iv_values]
first_pass(d) ==
    LET failed(e) == [err |-> e, design |-> d, iv_name |-> "", iv_values |-> <<>>]
        pass(conditions) ==
            Bind(OrderingFirstPass(d.ordering, conditions),
                 LAMBDA o :
                    [err |-> "none", design |-> [d EXCEPT !.ordering = o.ordering],
                     iv_name |-> o.iv_name, iv_values |-> o.iv_values])
    IN IF ~d.design_matrix.none
       THEN IF Len(d.design_matrix.rows[1]) # Len(d.iv_names)
            THEN failed("TypeError")
            ELSE Bind(_parse_design_matrix(d),
                      LAMBDA parsed :
                         IF parsed.err # "none" THEN failed(parsed.err)
                         ELSE pass(parsed.conditions))
       ELSE pass(full_cross(d.iv_names, d.iv_values))

\* A Design.update that appends nothing.
UpdateNothing(d, names, values) == d

\* Design.update(names, values)
update(d, names, values) ==
    [d EXCEPT !.iv_names = @ \o names, !.iv_values = @ \o values]

is_heterogeneous(d) == "design" \in Range(d.iv_names)

\* Design.branches: the declared values of the IV design, or ().
design_branches(d) ==
    IF is_heterogeneous(d)
    THEN LET v == DictZip(d.iv_names, d.iv_values)["design"]
         IN v.values
    ELSE <<>>

(***************************************************************************)
(* design.py, DesignTree.  The constructor as a whole (it is what builds   *)
(* the branch trees, recursively); SpecTree below runs the constructor of  *)
(* the main tree statement by statement.                                   *)
(*                                                                         *)
(* other_designs is the keyword dict in order, a sequence of               *)
(* <<name, alternate>>; an alternate is an already-built DesignTree        *)
(* (is_tree) or a raw list of levels, and either way the constructor       *)
(* iterates its levels.                                                    *)
(***************************************************************************)
Alternate(is_tree, t) ==
    [is_tree |-> is_tree, levels_and_designs |-> t.levels_and_designs,
     branches |-> t.branches, other_designs |-> t.other_designs]

Names(pairs) == {pairs[i][1] : i \in 1..Len(pairs)}

Lookup(pairs, name) == (CHOOSE p \in Range(pairs) : p[1] = name)[2]

\* the dict without the key name
RECURSIVE Without(_, _)
Without(pairs, name) ==
    IF pairs = <<>> THEN <<>>
    ELSE (IF Head(pairs)[1] # name THEN <<Head(pairs)>> ELSE <<>>)
         \o Without(Tail(pairs), name)

\* "branch in bottom_level_design.branches": the alternate itself (a
\* DesignTree or a list) is looked up among the branch names; it equals
\* none of them (DesignTree.__eq__ answers None for another type).
InBranchNames(branch, names) == FALSE

\* {name: branch for name, branch in other_designs.items()
\*  if branch in bottom_level_design.branches and isinstance(branch, DesignTree)}
RECURSIVE SuppliedBranches(_, _)
SuppliedBranches(others, names) ==
    IF others = <<>> THEN <<>>
    ELSE (IF InBranchNames(Head(others)[2], names) /\ Head(others)[2].is_tree
          THEN <<Head(others)>> ELSE <<>>)
         \o SuppliedBranches(Tail(others), names)

\* one level's "for design in designs: design.first_pass()": the designs
\* afterwards, the non-empty IVs returned, and the last call's return
RECURSIVE PassLevel(_, _, _)
PassLevel(designs, i, acc) ==
    IF i > Len(designs) THEN acc
    ELSE Bind(first_pass(designs[i]),
              LAMBDA r :
                 IF r.err # "none" THEN [acc EXCEPT !.err = r.err]
                 ELSE Bind([err |-> "none",
                            designs |-> [acc.designs EXCEPT ![i] = r.design],
                            names |-> IF r.iv_name # ""
                                      THEN Append(acc.names, r.iv_name)
                                      ELSE acc.names,
                            values |-> IF r.iv_name # ""
                                       THEN Append(acc.values, Values(r.iv_values))
                                       ELSE acc.values,
                            last |-> [name |-> r.iv_name, values |-> r.iv_values]],
                           LAMBDA next : PassLevel(designs, i + 1, next)))

NoIV == [name |-> "", values |-> <<>>]

StartLevel(designs) ==
    [err |-> "none", designs |-> designs, names |-> <<>>, values |-> <<>>,
     last |-> NoIV]

\* the pairs (level, level_above) of DesignTree.first_pass, from the bottom
RECURSIVE PassPairs(_, _)
PassPairs(lad, l) ==
    IF l < 2 THEN [err |-> "none", lad |-> lad]
    ELSE Bind(PassLevel(lad[l].design, 1, StartLevel(lad[l].design)),
              LAMBDA low :
                 IF low.err # "none" THEN [err |-> low.err, lad |-> lad]
                 ELSE Bind([lad EXCEPT
                              ![l].design = low.designs,
                              ![l - 1].design =
                                  [j \in 1..Len(@) |->
                                      update(@[j], low.names, low.values)]],
                           LAMBDA above : PassPairs(above, l - 1)))

\* DesignTree.first_pass(levels_and_designs)
DesignTree_first_pass(lad) ==
    Bind(PassPairs(lad, Len(lad)),
         LAMBDA pairs :
            IF pairs.err # "none"
            THEN [err |-> pairs.err, lad |-> lad, iv_names |-> ""]
            ELSE Bind(PassLevel(pairs.lad[1].design, 1,
                                StartLevel(pairs.lad[1].design)),
                      LAMBDA top :
                         [err |-> top.err,
                          lad |-> [pairs.lad EXCEPT ![1].design = top.designs],
                          iv_names |-> top.last.name]))

RECURSIVE DesignTree(_, _)
RECURSIVE resolve_branches(_, _, _, _)

\* the loop "for branch_name in bottom_level_design.branches"
resolve_branches(names, i, others, acc) ==
    IF i > Len(names) THEN [err |-> "none", branches |-> acc]
    ELSE IF names[i] \in Names(acc)
    THEN resolve_branches(names, i + 1, others, acc)
    ELSE IF names[i] \notin Names(others)
    THEN [err |-> "KeyError", branches |-> acc]
    ELSE Bind(DesignTree(Lookup(others, names[i]).levels_and_designs,
                         Without(others, names[i])),
              LAMBDA t :
                 IF t.err # "none" THEN [err |-> t.err, branches |-> acc]
                 ELSE Bind(Append(acc, <<names[i], t.tree>>),
                           LAMBDA next :
                              resolve_branches(names, i + 1, others, next)))

\* self.branches of DesignTree.__init__
heterogeneous_branches(lad, others) ==
    LET bottom_level_design == lad[Len(lad)].design[1]
    IN IF is_heterogeneous(bottom_level_design)
       THEN resolve_branches(
              design_branches(bottom_level_design), 1, others,
              SuppliedBranches(others, design_branches(bottom_level_design)))
       ELSE [err |-> "none", branches |-> <<>>]

\* DesignTree(levels_and_designs, **other_designs)
DesignTree(lad, others) ==
    LET none == [levels_and_designs |-> <<>>, branches |-> <<>>,
                 other_designs |-> <<>>]
    IN Bind(heterogeneous_branches(lad, others),
            LAMBDA br :
               IF br.err # "none" THEN [err |-> br.err, tree |-> none]
               ELSE Bind(DesignTree_first_pass(lad),
                         LAMBDA fp :
                            IF fp.err # "none" THEN [err |-> fp.err, tree |-> none]
                            ELSE IF fp.iv_names # ""
                            THEN [err |-> "ValueError", tree |-> none]
                            ELSE [err |-> "none",
                                  tree |-> [levels_and_designs |-> fp.lad,
                                            branches |-> br.branches,
                                            other_designs |-> others]]))

(***************************************************************************)
(* Inputs of the section specifications.                                   *)
(***************************************************************************)
CondA1 == [a |-> 1]
CondA2 == [a |-> 2]
CondB1 == [b |-> 1]

DesignA == DesignObj(TRUE, {}, <<CondA1, CondA2>>, EmptyMap)
DesignB == DesignObj(TRUE, {}, <<CondB1>>, EmptyMap)
DesignMixed == DesignObj(TRUE, {}, <<CondA1, CondB1>>, EmptyMap)
\* its order callable has a required keyword parameter a
DesignNeedsA == DesignObj(TRUE, {"a"}, <<CondB1>>, EmptyMap)
\* an instance of design.py's Design: no attribute order
DesignReal == DesignObj(FALSE, {}, <<CondA1, CondA2>>, [note |-> 5])
\* a heterogeneous design: the IV design, with the branch names 1 and 2
DesignHet == DesignObj(TRUE, {}, <<[design |-> 1], [design |-> 2]>>, EmptyMap)
DesignBase == DesignObj(TRUE, {}, <<EmptyMap>>, EmptyMap)

Tree(levels, br) ==
    [levels_and_designs |-> levels, branches |-> br, other_designs |-> <<>>]

BranchOne == Tree(<<Level("trial", <<DesignB>>)>>, <<>>)
BranchTwo == Tree(<<Level("trial", <<DesignA>>)>>, <<>>)

SectionTrees ==
    { Tree(<<Level("_base", <<DesignBase>>), Level("block", <<DesignA>>),
             Level("trial", <<DesignB>>)>>, <<>>),
      Tree(<<Level("_base", <<DesignBase>>), Level("block", <<DesignB>>),
             Level("trial", <<DesignB, DesignA>>)>>, <<>>),
      Tree(<<Level("_base", <<DesignBase>>), Level("block", <<DesignA>>),
             Level("trial", <<DesignNeedsA>>)>>, <<>>),
      Tree(<<Level("_base", <<DesignBase>>), Level("block", <<DesignReal>>),
             Level("trial", <<DesignB>>)>>, <<>>),
      Tree(<<Level("_base", <<DesignBase>>), Level("block", <<DesignHet>>)>>,
           << <<1, BranchOne>>, <<2, BranchTwo>> >>) }

AppendDesigns == {DesignMixed, DesignReal}
AppendConds == {CondA1}
RootContext == [participant |-> 1]
AddKeys == {"note", "trial"}
AddValues == {7}

NoOp == [op |-> "init", s |-> 0, to_start |-> FALSE, before |-> <<>>,
         size |-> 0, conds |-> <<>>, d |-> DesignBase]
NoAdd == [s |-> 0, k |-> "", v |-> 0]

(***************************************************************************)
(* The section specifications.                                             *)
(***************************************************************************)
\* The variables of the parts a specification does not use.
IdleSection ==
    /\ tree = <<>>
    /\ sections = <<>>
    /\ err = "none"
    /\ lastOp = NoOp
    /\ lastAdd = NoAdd
    /\ data = <<>>
    /\ ops = 0

IdleTree ==
    /\ levels_and_designs = <<>>
    /\ other_designs = <<>>
    /\ branches = <<>>
    /\ pc = [phase |-> "idle"]
    /\ new_ivs = <<>>
    /\ top_iv = <<>>
    /\ calls = <<>>
    /\ cursor = <<>>
    /\ lastPeel = <<>>

IdleDesign ==
    /\ design = <<>>
    /\ result = <<>>

IdleHeap ==
    /\ heap = <<>>
    /\ peels = <<>>
    /\ lastTree = <<>>

InitSection ==
    /\ tree \in SectionTrees
    /\ sections = <<>>
    /\ err = "none"
    /\ lastOp = NoOp
    /\ lastAdd = NoAdd
    /\ data = <<>>
    /\ ops = 0
    /\ IdleTree
    /\ IdleDesign
    /\ IdleHeap

\* root = ExperimentSection(context, tree)
Construct ==
    /\ sections = <<>>
    /\ lastOp.op = "init"
    /\ LET r == ExperimentSection(<<>>, RootContext, 0,
                                  [kind |-> "tree", value |-> tree])
       IN /\ Len(r.arena) <= MaxSections
          /\ sections' = r.arena
          /\ err' = r.err
    /\ lastOp' = [NoOp EXCEPT !.op = "construct"]
    /\ UNCHANGED <<tree, lastAdd, data, ops, treeVars, desVars, heapVars>>

\* s.append_design(d, to_start)
AppendDesign(s, d, to_start) ==
    /\ ops < MaxOps
    /\ LET r == append_design(sections, s, d, to_start)
       IN /\ Len(r.arena) <= MaxSections
          /\ sections' = r.arena
          /\ err' = r.err
    /\ lastOp' = [op |-> "append_design", s |-> s, to_start |-> to_start,
                  before |-> sections[s].children, size |-> Len(sections),
                  conds |-> order(d, Context(sections, s)).conds, d |-> d]
    /\ lastAdd' = NoAdd
    /\ data' = <<>>
    /\ ops' = ops + 1
    /\ UNCHANGED <<tree, treeVars, desVars, heapVars>>

\* s.append_child(to_start, context as keywords)
AppendChild(s, to_start, context) ==
    /\ ops < MaxOps
    /\ LET r == append_child(sections, s, to_start, context)
       IN /\ Len(r.arena) <= MaxSections
          /\ sections' = r.arena
          /\ err' = r.err
    /\ lastOp' = [op |-> "append_child", s |-> s, to_start |-> to_start,
                  before |-> sections[s].children, size |-> Len(sections),
                  conds |-> <<context>>, d |-> DesignBase]
    /\ lastAdd' = NoAdd
    /\ data' = <<>>
    /\ ops' = ops + 1
    /\ UNCHANGED <<tree, treeVars, desVars, heapVars>>

\* s.add_data(k=v)
AddData(s, k, v) ==
    /\ ops < MaxOps
    /\ sections' = add_data(sections, s, k :> v)
    /\ err' = "none"
    /\ lastOp' = [NoOp EXCEPT !.op = "add_data", !.s = s]
    /\ lastAdd' = [s |-> s, k |-> k, v |-> v]
    /\ data' = <<>>
    /\ ops' = ops + 1
    /\ UNCHANGED <<tree, treeVars, desVars, heapVars>>

\* list(s.generate_data())
GenerateData(s) ==
    /\ lastOp.op # "generate_data"
    /\ data' = generate_data(sections, s)
    /\ err' = "none"
    /\ lastOp' = [NoOp EXCEPT !.op = "generate_data", !.s = s]
    /\ UNCHANGED <<tree, sections, lastAdd, ops, treeVars, desVars, heapVars>>

NextInsert ==
    \/ Construct
    \/ \E s \in 1..Len(sections), d \in AppendDesigns, to_start \in BOOLEAN :
          AppendDesign(s, d, to_start)
    \/ \E s \in 1..Len(sections), c \in AppendConds, to_start \in BOOLEAN :
          AppendChild(s, to_start, c)
    \/ \E s \in 1..Len(sections) : GenerateData(s)

NextSection ==
    \/ NextInsert
    \/ \E s \in 1..Len(sections), k \in AddKeys : \E v \in AddValues : AddData(s, k, v)

SpecInsert == InitSection /\ [][NextInsert]_vars

SpecSection == InitSection /\ [][NextSection]_vars

(***************************************************************************)
(* Design.first_pass on one Design that has a design matrix.               *)
(***************************************************************************)
MaxRows == 3
Codes == {0, 1, 2}
IVNames == <<"a", "b">>
IVValueInputs ==
    {None, Values(<<>>), Values(<<10, 20>>), Values(<<10, 20, 30>>)}

MatrixInputs ==
    UNION {[1..r -> [1..c -> Codes]] : r \in 1..MaxRows, c \in 1..Len(IVNames)}

\* a Design over the first n IV names, each with its declared values, and
\* a matrix of one or two columns
DesignInputs(d) ==
    \E n \in 1..Len(IVNames), m \in MatrixInputs :
        \E vs \in [1..n -> IVValueInputs] :
            d = Design(SubSeq(IVNames, 1, n), vs, Matrix(m),
                       Ordering(FALSE, "", <<>>), [note |-> 5])

NoResult == [done |-> FALSE, err |-> "none", conditions |-> <<>>]

InitDesign ==
    /\ DesignInputs(design)
    /\ result = NoResult
    /\ IdleSection
    /\ IdleTree
    /\ IdleHeap

\* design.first_pass()
FirstPass ==
    /\ ~result.done
    /\ LET r == first_pass(design)
       IN /\ design' = r.design
          /\ result' = [done |-> TRUE, err |-> r.err,
                        conditions |-> r.design.ordering.all_conditions]
    /\ UNCHANGED <<secVars, treeVars, heapVars>>

NextDesign == FirstPass

SpecDesign == InitDesign /\ [][NextDesign]_vars

(***************************************************************************)
(* C9 as stated: first_pass of a Design with a design matrix fails         *)
(* whenever some column's number of distinct codes differs from the length *)
(* of the value list declared for its IV, an empty list included; only an  *)
(* IV declared without a value list (None) is exempt.                      *)
(***************************************************************************)
DistinctCodes(d, c) == Cardinality(Range(Column(d.design_matrix.rows, c)))

C9_CountMismatchFails ==
    (/\ result.done
     /\ Len(design.design_matrix.rows[1]) = Len(design.iv_names)) =>
        ((\E c \in 1..Len(design.iv_names) :
             /\ ~design.iv_values[c].none
             /\ Len(design.iv_values[c].values) # DistinctCodes(design, c))
          <=> result.err # "none")

(***************************************************************************)
(* The DesignTree constructor of the main tree, statement by statement,    *)
(* then peeling of the built tree.  The initial state is the one after     *)
(* lines 377-388: every level holds a list of Designs.                     *)
(***************************************************************************)
MaxDesigns == 2
LevelNames == <<"participant", "block", "trial">>

Atomic == Ordering(FALSE, "", <<>>)
NonAtomic == Ordering(TRUE, "order", <<1, 2>>)

AtomicDesign == Design(<<"a">>, <<Values(<<1, 2>>)>>, NoMatrix, Atomic, EmptyMap)
NonAtomicDesign ==
    Design(<<"b">>, <<Values(<<1, 2>>)>>, NoMatrix, NonAtomic, EmptyMap)
MatrixDesign ==
    Design(<<"a">>, <<Values(<<1, 2>>)>>, Matrix(<< <<0>>, <<1>> >>), Atomic,
           EmptyMap)
TreeDesigns == <<AtomicDesign, NonAtomicDesign>>

\* the values of the IV design a heterogeneous bottom level declares, in
\* either order
BranchNames == {<<1, 2>>, <<2, 1>>}

RawBranch ==
    Tree(<<Level("block", <<AtomicDesign>>),
           Level("trial", <<NonAtomicDesign>>)>>, <<>>)
BuiltBranch == DesignTree(<<Level("trial", <<AtomicDesign>>)>>, <<>>).tree

OtherDesigns ==
    << <<1, Alternate(FALSE, RawBranch)>>, <<2, Alternate(TRUE, BuiltBranch)>> >>

\* the designs of a level, each named by its position in TreeDesigns
LevelInputs == UNION {[1..n -> DOMAIN TreeDesigns] : n \in 1..MaxDesigns}
SingleInputs == [{1} -> DOMAIN TreeDesigns]

\* the designs of one to three levels, each level drawn from inputs
LevelsOf(inputs) == UNION {[1..n -> inputs] : n \in 1..Len(LevelNames)}

\* the levels of a tree: the last n level names, each with its designs;
\* matrix puts a design matrix on the first top-level design, het are the
\* values of the IV design declared on the first bottom-level design (none
\* for a homogeneous tree)
TreeInput(picked, matrix, het) ==
    LET n == Len(picked)
        designs == [l \in 1..n |->
                      [i \in 1..Len(picked[l]) |-> TreeDesigns[picked[l][i]]]]
        names == SubSeq(LevelNames, Len(LevelNames) - n + 1, Len(LevelNames))
        withMatrix == IF matrix
                      THEN [designs EXCEPT ![1][1].design_matrix =
                                               MatrixDesign.design_matrix]
                      ELSE designs
        withHet == IF het # <<>>
                   THEN [withMatrix EXCEPT
                           ![n][1] = update(@, <<"design">>, <<Values(het)>>)]
                   ELSE withMatrix
    IN [l \in 1..n |-> Level(names[l], withHet[l])]

\* homogeneous trees with up to MaxDesigns designs per level, heterogeneous
\* trees with one design per level
TreeInputs(lad) ==
    \/ \E picked \in LevelsOf(LevelInputs), matrix \in BOOLEAN :
          lad = TreeInput(picked, matrix, <<>>)
    \/ \E picked \in LevelsOf(SingleInputs), matrix \in BOOLEAN,
          het \in BranchNames :
          lad = TreeInput(picked, matrix, het)

NoTree == Tree(<<>>, <<>>)
NoCursor == [kind |-> "none", tree |-> NoTree, branches |-> <<>>]
NoPeel == [valid |-> FALSE, src |-> NoTree, kind |-> "none", tree |-> NoTree,
           branches |-> <<>>]
At(phase, level, index) ==
    [phase |-> phase, level |-> level, index |-> index, err |-> "none"]
Failed(e) == [phase |-> "failed", level |-> 0, index |-> 0, err |-> e]

InitTree ==
    /\ TreeInputs(levels_and_designs)
    /\ other_designs =
          (IF is_heterogeneous(levels_and_designs[Len(levels_and_designs)].design[1])
           THEN OtherDesigns ELSE <<>>)
    /\ branches = <<>>
    /\ pc = At("branches", 0, 0)
    /\ new_ivs = [names |-> <<>>, values |-> <<>>]
    /\ top_iv = NoIV
    /\ calls = <<>>
    /\ cursor = NoCursor
    /\ lastPeel = NoPeel
    /\ IdleSection
    /\ IdleDesign
    /\ IdleHeap

\* DesignTree.first_pass starts with the bottom pair, or with the top level
FirstPair(lad) ==
    IF Len(lad) >= 2 THEN At("lower", Len(lad), 1) ELSE At("top", 1, 1)

\* lines 390-403: self.branches
ResolveBranches ==
    /\ pc.phase = "branches"
    /\ LET br == heterogeneous_branches(levels_and_designs, other_designs)
       IN IF br.err # "none"
          THEN pc' = Failed(br.err) /\ UNCHANGED branches
          ELSE /\ branches' = br.branches
               /\ pc' = FirstPair(levels_and_designs)
    /\ UNCHANGED <<levels_and_designs, other_designs, new_ivs, top_iv, calls,
                   cursor, lastPeel, secVars, desVars, heapVars>>

Call(name, level, index, names) ==
    [call |-> name, level |-> level, index |-> index, names |-> names]

\* lines 520-524: design.first_pass() of one design of the lower level
LowerFirstPass ==
    /\ pc.phase = "lower"
    /\ LET l == pc.level
           i == pc.index
           r == first_pass(levels_and_designs[l].design[i])
       IN IF r.err # "none"
          THEN /\ pc' = Failed(r.err)
               /\ UNCHANGED <<levels_and_designs, new_ivs, calls>>
          ELSE /\ levels_and_designs' =
                      [levels_and_designs EXCEPT ![l].design[i] = r.design]
               /\ new_ivs' =
                      IF r.iv_name # ""
                      THEN [names |-> Append(new_ivs.names, r.iv_name),
                            values |-> Append(new_ivs.values, Values(r.iv_values))]
                      ELSE new_ivs
               /\ calls' = Append(calls,
                             Call("first_pass", l, i,
                                  IF r.iv_name # "" THEN <<r.iv_name>> ELSE <<>>))
               /\ pc' = IF i < Len(levels_and_designs[l].design)
                        THEN At("lower", l, i + 1)
                        ELSE At("update", l, 1)
    /\ UNCHANGED <<other_designs, branches, top_iv, cursor, lastPeel, secVars,
                   desVars, heapVars>>

\* lines 525-526: design.update(new_iv_names, new_iv_values) of one design
\* of the level above; after the last one, the next pair or the top level
UpdateAbove ==
    /\ pc.phase = "update"
    /\ LET l == pc.level
           j == pc.index
       IN /\ levels_and_designs' =
                [levels_and_designs EXCEPT
                   ![l - 1].design[j] = update(@, new_ivs.names, new_ivs.values)]
          /\ calls' = Append(calls, Call("update", l - 1, j, new_ivs.names))
          /\ IF j < Len(levels_and_designs[l - 1].design)
             THEN pc' = At("update", l, j + 1) /\ UNCHANGED new_ivs
             ELSE /\ new_ivs' = [names |-> <<>>, values |-> <<>>]
                  /\ pc' = IF l - 1 >= 2 THEN At("lower", l - 1, 1)
                           ELSE At("top", 1, 1)
    /\ UNCHANGED <<other_designs, branches, top_iv, cursor, lastPeel, secVars,
                   desVars, heapVars>>

\* lines 529-531: iv_names, iv_values = design.first_pass() at the top level
TopFirstPass ==
    /\ pc.phase = "top"
    /\ LET i == pc.index
           r == first_pass(levels_and_designs[1].design[i])
       IN IF r.err # "none"
          THEN /\ pc' = Failed(r.err)
               /\ UNCHANGED <<levels_and_designs, top_iv, calls>>
          ELSE /\ levels_and_designs' =
                      [levels_and_designs EXCEPT ![1].design[i] = r.design]
               /\ top_iv' = [name |-> r.iv_name, values |-> r.iv_values]
               /\ calls' = Append(calls,
                             Call("first_pass", 1, i,
                                  IF r.iv_name # "" THEN <<r.iv_name>> ELSE <<>>))
               /\ pc' = IF i < Len(levels_and_designs[1].design)
                        THEN At("top", 1, i + 1)
                        ELSE At("check", 1, 1)
    /\ UNCHANGED <<other_designs, branches, new_ivs, cursor, lastPeel, secVars,
                   desVars, heapVars>>

\* lines 405-408: the constructor raises, or returns the tree
CheckTop ==
    /\ pc.phase = "check"
    /\ IF top_iv.name # ""
       THEN pc' = Failed("ValueError") /\ UNCHANGED cursor
       ELSE /\ pc' = At("done", 0, 0)
            /\ cursor' = [kind |-> "tree",
                          tree |-> [levels_and_designs |-> levels_and_designs,
                                    branches |-> branches,
                                    other_designs |-> other_designs],
                          branches |-> <<>>]
    /\ UNCHANGED <<levels_and_designs, other_designs, branches, new_ivs, top_iv,
                   calls, lastPeel, secVars, desVars, heapVars>>

\* next(cursor)
Peel ==
    /\ pc.phase = "done"
    /\ cursor.kind = "tree"
    /\ LET r == DesignTreeNext(cursor.tree)
       IN /\ lastPeel' =
                [valid |-> TRUE, src |-> cursor.tree, kind |-> r.kind,
                 tree |-> IF r.kind = "tree" THEN r.value ELSE NoTree,
                 branches |-> IF r.kind = "branches" THEN r.value ELSE <<>>]
          /\ cursor' =
                IF r.kind = "tree"
                THEN [cursor EXCEPT !.tree = r.value]
                ELSE IF r.kind = "branches"
                THEN [kind |-> "branches", tree |-> NoTree, branches |-> r.value]
                ELSE cursor
    /\ UNCHANGED <<levels_and_designs, other_designs, branches, pc, new_ivs,
                   top_iv, calls, secVars, desVars, heapVars>>

\* branches[name], taken from the branch map a peel returned
EnterBranch(i) ==
    /\ pc.phase = "done"
    /\ cursor.kind = "branches"
    /\ cursor' = [kind |-> "tree", tree |-> cursor.branches[i][2],
                  branches |-> <<>>]
    /\ UNCHANGED <<levels_and_designs, other_designs, branches, pc, new_ivs,
                   top_iv, calls, lastPeel, secVars, desVars, heapVars>>

NextTree ==
    \/ ResolveBranches
    \/ LowerFirstPass
    \/ UpdateAbove
    \/ TopFirstPass
    \/ CheckTop
    \/ Peel
    \/ \E i \in 1..Len(cursor.branches) : EnterBranch(i)

SpecTree == InitTree /\ [][NextTree]_vars

(***************************************************************************)
(* DesignTree objects with identity.  heap[id] is the object's __dict__:   *)
(* levels_and_designs, branches, other_designs.  next() makes a shallow    *)
(* copy and binds a new list (the slice) to the copy's levels_and_designs; *)
(* add_base_level binds a new list to the object's own attribute.          *)
(***************************************************************************)
MaxPeels == 3

\* A next() that drops the first level of the tree itself and returns it.
NextInPlace(h, id) ==
    LET r == DesignTreeNext(h[id])
    IN IF r.kind = "tree"
       THEN [kind |-> "tree", heap |-> [h EXCEPT ![id] = r.value], id |-> id,
             branches |-> <<>>]
       ELSE [kind |-> r.kind, heap |-> h, id |-> 0,
             branches |-> IF r.kind = "branches" THEN r.value ELSE <<>>]

\* next(tree) on the object id: the heap afterwards and the object returned
next_tree(h, id) ==
    LET r == DesignTreeNext(h[id])
    IN IF r.kind = "tree"
       THEN [kind |-> "tree", heap |-> Append(h, r.value), id |-> Len(h) + 1,
             branches |-> <<>>]
       ELSE [kind |-> r.kind, heap |-> h, id |-> 0,
             branches |-> IF r.kind = "branches" THEN r.value ELSE <<>>]

\* Design(): no IVs, no design matrix, the default ordering
DefaultDesign == Design(<<>>, <<>>, NoMatrix, Atomic, EmptyMap)

\* tree.add_base_level() on the object id
add_base_level(h, id) ==
    [h EXCEPT ![id].levels_and_designs = <<Level("_base", DefaultDesign)>> \o @]

NoTreeOp == [op |-> "init", id |-> 0]

\* a tree the constructor built: one design per level, heterogeneous or not
InitPeel ==
    /\ \E picked \in LevelsOf(SingleInputs), het \in BranchNames \cup {<<>>} :
          LET t == DesignTree(TreeInput(picked, FALSE, het),
                              IF het # <<>> THEN OtherDesigns ELSE <<>>)
          IN t.err = "none" /\ heap = <<t.tree>>
    /\ peels = <<>>
    /\ lastTree = NoTreeOp
    /\ IdleSection
    /\ IdleTree
    /\ IdleDesign

\* next(heap[id])
PeelTree(id) ==
    /\ Len(peels) < MaxPeels
    /\ LET r == next_tree(heap, id)
       IN /\ heap' = r.heap
          /\ peels' = Append(peels,
                         [src |-> id, before |-> heap[id], after |-> r.heap[id],
                          kind |-> r.kind, id |-> r.id,
                          tree |-> IF r.kind = "tree" THEN r.heap[r.id]
                                   ELSE NoTree])
    /\ lastTree' = [op |-> "next", id |-> id]
    /\ UNCHANGED <<secVars, treeVars, desVars>>

\* heap[1].add_base_level(), on the tree the constructor built
AddBaseLevel ==
    /\ Len(heap[1].levels_and_designs) <= Len(LevelNames)
    /\ heap' = add_base_level(heap, 1)
    /\ lastTree' = [op |-> "add_base_level", id |-> 1]
    /\ UNCHANGED <<peels, secVars, treeVars, desVars>>

NextPeel ==
    \/ \E id \in 1..Len(heap) : PeelTree(id)
    \/ AddBaseLevel

SpecPeel == InitPeel /\ [][NextPeel]_vars

(***************************************************************************)
(* Relations on the section tree used by the properties.                   *)
(***************************************************************************)
\* the sections from n up to the root, n included
RECURSIVE PathUp(_, _)
PathUp(arena, n) ==
    IF n = 0 THEN {} ELSE {n} \cup PathUp(arena, arena[n].parent)

\* n lies strictly below s
IsUnder(arena, n, s) == n # s /\ s \in PathUp(arena, n)

\* the sections from n up to, and without, s
Between(arena, n, s) == PathUp(arena, n) \ PathUp(arena, s)

\* the child positions leading from s down to n
RECURSIVE ChildPath(_, _, _)
ChildPath(arena, s, n) ==
    IF n = s THEN <<>>
    ELSE Append(ChildPath(arena, s, arena[n].parent),
                PositionOf(arena[arena[n].parent].children, n))

\* p comes before q in depth-first, left-to-right order
LexLess(p, q) ==
    \E i \in 1..Len(p) :
        /\ i <= Len(q)
        /\ p[i] < q[i]
        /\ \A j \in 1..(i - 1) : p[j] = q[j]

Inserted == lastOp.op \in {"append_design", "append_child"}

(***************************************************************************)
(* C1.  Numbering: in every state reached by child insertions, the child   *)
(* at position i of a section that is not at the deepest level holds, in   *)
(* its own layer, the section's next-level name mapped to i (positions     *)
(* counted from 1).  Checked under SpecInsert.                             *)
(***************************************************************************)
C1_Numbering ==
    \A s \in 1..Len(sections) :
        ~sections[s].is_bottom_level =>
            \A i \in 1..Len(sections[s].children) :
                LET c == sections[sections[s].children[i]].context
                IN /\ sections[s].next_level \in DOMAIN c
                   /\ c[sections[s].next_level] = i

\* a front insertion in front of at least two older children has happened
C1_Witness ==
    /\ Inserted /\ lastOp.to_start /\ err = "none"
    /\ Len(lastOp.before) >= 2
    /\ Len(sections[lastOp.s].children) > Len(lastOp.before)

(***************************************************************************)
(* C8.  After a successful append_design(design, to_start) on a section    *)
(* with children c1..cn, where the design's order returned d1..dm: the     *)
(* children are m new sections for d1..dm in that order followed by        *)
(* c1..cn when to_start, and c1..cn followed by the new sections for       *)
(* d1..dm otherwise.                                                       *)
(***************************************************************************)
NewSectionFor(c, cond, s) ==
    /\ c > lastOp.size
    /\ sections[c].parent = s
    /\ \A k \in DOMAIN cond :
          k \in DOMAIN sections[c].context /\ sections[c].context[k] = cond[k]

C8_BatchOrder ==
    (lastOp.op = "append_design" /\ err = "none") =>
        LET s == lastOp.s
            ch == sections[s].children
            m == Len(lastOp.conds)
            n == Len(lastOp.before)
            off == IF lastOp.to_start THEN 0 ELSE n
        IN /\ Len(ch) = m + n
           /\ \A i, j \in 1..Len(ch) : i # j => ch[i] # ch[j]
           /\ IF lastOp.to_start
              THEN SubSeq(ch, m + 1, m + n) = lastOp.before
              ELSE SubSeq(ch, 1, n) = lastOp.before
           /\ \A i \in 1..m : NewSectionFor(ch[off + i], lastOp.conds[i], s)

\* a batch of two conditions went in front of existing children
C8_Witness ==
    /\ lastOp.op = "append_design" /\ err = "none" /\ lastOp.to_start
    /\ Len(lastOp.conds) >= 2
    /\ lastOp.before # <<>>
    /\ Len(sections[lastOp.s].children) = Len(lastOp.before) + Len(lastOp.conds)

(***************************************************************************)
(* C3.  generate_data() on a section yields exactly one record per         *)
(* deepest-level descendant of the section, in depth-first left-to-right   *)
(* order of the children sequences, and each record resolves the keys of   *)
(* every layer on the path from the leaf upward and the numbering key of   *)
(* every level between the section and the leaf.                           *)
(***************************************************************************)
Leaves(s) ==
    {n \in 1..Len(sections) :
        sections[n].is_bottom_level /\ IsUnder(sections, n, s)}

C3_GenerateData ==
    lastOp.op = "generate_data" =>
        LET s == lastOp.s
        IN /\ {data[i].section : i \in 1..Len(data)} = Leaves(s)
           /\ Len(data) = Cardinality(Leaves(s))
           /\ \A i, j \in 1..Len(data) :
                 i < j => LexLess(ChildPath(sections, s, data[i].section),
                                  ChildPath(sections, s, data[j].section))
           /\ \A i \in 1..Len(data) :
                 /\ \A n \in PathUp(sections, data[i].section) :
                       \A k \in DOMAIN sections[n].context :
                           k \in DOMAIN data[i].record
                 /\ \A n \in Between(sections, data[i].section, s) :
                       sections[n].level \in DOMAIN data[i].record

\* generate_data on the root of a three-level tree whose blocks hold
\* different numbers of trials, one block inserted at the front
C3_Witness ==
    /\ lastOp.op = "generate_data" /\ lastOp.s = 1
    /\ Len(data) >= 3
    /\ Len(sections[1].children) >= 3
    /\ \E i \in 1..Len(data) : sections[data[i].section].parent # 1

(***************************************************************************)
(* C2 as stated: after add_data(k=v) on a section S, every leaf record     *)
(* generate_data() then yields for a deepest-level descendant of S maps k  *)
(* to v, for every key k.                                                  *)
(***************************************************************************)
C2_EveryKey ==
    (lastOp.op = "generate_data" /\ lastAdd # NoAdd) =>
        \A i \in 1..Len(data) :
            IsUnder(sections, data[i].section, lastAdd.s) =>
                /\ lastAdd.k \in DOMAIN data[i].record
                /\ data[i].record[lastAdd.k] = lastAdd.v

(***************************************************************************)
(* C2, amended: after add_data(k=v) on a section S, every leaf record      *)
(* generate_data() then yields for a deepest-level descendant of S maps k  *)
(* to v unless a section strictly below S on the path to that leaf holds k *)
(* in its own layer; and add_data rewrites no layer but S's own.           *)
(***************************************************************************)
Shadowed(leaf, s, k) ==
    \E n \in Between(sections, leaf, s) : k \in DOMAIN sections[n].context

C2_Visible ==
    (lastOp.op = "generate_data" /\ lastAdd # NoAdd) =>
        \A i \in 1..Len(data) :
            (/\ IsUnder(sections, data[i].section, lastAdd.s)
             /\ ~Shadowed(data[i].section, lastAdd.s, lastAdd.k)) =>
                /\ lastAdd.k \in DOMAIN data[i].record
                /\ data[i].record[lastAdd.k] = lastAdd.v

C2_OwnLayerOnly ==
    lastOp'.op = "add_data" =>
        /\ Len(sections') = Len(sections)
        /\ \A n \in 1..Len(sections) :
              n # lastOp'.s => sections'[n] = sections[n]
        /\ lastAdd'.k \in DOMAIN sections'[lastOp'.s].context
        /\ sections'[lastOp'.s].context[lastAdd'.k] = lastAdd'.v

C2_AddData == [](C2_Visible) /\ [][C2_OwnLayerOnly]_vars

\* add_data on a block, then generate_data on the root: the leaves under
\* the block show the value, a leaf under another block does not hold the key
C2_Witness ==
    /\ lastOp.op = "generate_data" /\ lastOp.s = 1
    /\ lastAdd # NoAdd /\ lastAdd.s # 1 /\ lastAdd.k = "note"
    /\ \E i \in 1..Len(data) :
          /\ IsUnder(sections, data[i].section, lastAdd.s)
          /\ data[i].record["note"] = lastAdd.v
    /\ \E i \in 1..Len(data) :
          /\ ~IsUnder(sections, data[i].section, lastAdd.s)
          /\ "note" \notin DOMAIN data[i].record

(***************************************************************************)
(* C4 as stated: append_design(design) on a section that is not at the     *)
(* deepest level obtains the conditions from design.get_order with the     *)
(* section's context and constructs one child per returned condition, in   *)
(* order, whose context is the section's layered with that condition.      *)
(* Stated for instances of Design, the class that has get_order.           *)
(***************************************************************************)
C4_GetOrder ==
    (/\ lastOp.op = "append_design"
     /\ ~lastOp.d.has_order
     /\ ~sections[lastOp.s].is_bottom_level
     /\ ~lastOp.to_start) =>
        LET s == lastOp.s
            ch == sections[s].children
            n == Len(lastOp.before)
            expected == get_order(lastOp.d, Context(sections, s))
        IN /\ err = "none"
           /\ Len(ch) = n + Len(expected)
           /\ \A i \in 1..Len(expected) :
                 NewSectionFor(ch[n + i], expected[i], s)

(***************************************************************************)
(* C5 as stated: constructing the sections of a heterogeneous tree         *)
(* succeeds, and every section whose condition has design = b gets its     *)
(* children from the branch tree named b, and only from it.                *)
(***************************************************************************)
BranchNamed(b) == (CHOOSE p \in Range(tree.branches) : p[1] = b)[2]

C5_BranchSelected ==
    (lastOp.op = "construct" /\ tree.branches # <<>>) =>
        /\ err = "none"
        /\ sections # <<>>
        /\ \A n \in 1..Len(sections) :
              "design" \in DOMAIN sections[n].context =>
                  /\ sections[n].children # <<>>
                  /\ \A i \in 1..Len(sections[n].children) :
                        sections[sections[n].children[i]].tree =
                            BranchNamed(sections[n].context["design"])

(***************************************************************************)
(* C6 as stated: peeling a tree of length 1 stops; peeling a tree of       *)
(* length 2 whose single explicit level is heterogeneous yields the branch *)
(* map; in every other case it yields the tree without its first level,    *)
(* with the same branch map.                                               *)
(***************************************************************************)
DroppedFirst(t, r) ==
    /\ r.kind = "tree"
    /\ r.tree.levels_and_designs = Tail(t.levels_and_designs)
    /\ r.tree.branches = t.branches

YieldsBranches(t, r) == r.kind = "branches" /\ r.branches = t.branches

C6_LengthTwoOnly ==
    lastPeel.valid =>
        LET t == lastPeel.src
        IN IF DesignTreeLen(t) = 1 THEN lastPeel.kind = "StopIteration"
           ELSE IF DesignTreeLen(t) = 2 /\ Len(t.levels_and_designs) = 1
                   /\ is_heterogeneous(t.levels_and_designs[1].design[1])
           THEN YieldsBranches(t, lastPeel)
           ELSE DroppedFirst(t, lastPeel)

(***************************************************************************)
(* C6, amended: peeling a tree of length 1 stops; peeling a longer tree    *)
(* with a single explicit level left yields its (non-empty) branch map,    *)
(* whatever the length of the branch trees; peeling a tree with two or     *)
(* more explicit levels yields the tree without its first level, with the  *)
(* same branch map.                                                        *)
(***************************************************************************)
C6_Peel ==
    lastPeel.valid =>
        LET t == lastPeel.src
        IN IF DesignTreeLen(t) = 1 THEN lastPeel.kind = "StopIteration"
           ELSE IF Len(t.levels_and_designs) = 1
           THEN YieldsBranches(t, lastPeel) /\ t.branches # <<>>
           ELSE DroppedFirst(t, lastPeel)

\* a single heterogeneous level over branch trees of two levels was peeled
C6_Witness ==
    /\ lastPeel.valid
    /\ Len(lastPeel.src.levels_and_designs) = 1
    /\ DesignTreeLen(lastPeel.src) = 3
    /\ lastPeel.kind = "branches"

(***************************************************************************)
(* C7 as stated: the constructor fails whenever some Design of the top     *)
(* level has a non-atomic ordering (its first_pass returns a non-empty     *)
(* synthetic IV), several Designs at the top level included: a tree that   *)
(* was built has no non-atomic ordering at its top level.                  *)
(***************************************************************************)
TopDesigns == levels_and_designs[1].design

C7_TopNonAtomicFails ==
    pc.phase = "done" =>
        \A i \in 1..Len(TopDesigns) : ~TopDesigns[i].ordering.non_atomic

(***************************************************************************)
(* C10: in the constructor, before first_pass is called on a Design of a   *)
(* level that has a level below, first_pass has been called on every       *)
(* Design of the level below and update has been called on every Design of *)
(* the level itself with every synthetic IV those calls returned; no       *)
(* Design has first_pass called twice, and when the pass is over every     *)
(* Design has had it once; the conditions of a Design that has been passed *)
(* all hold the synthetic IVs of the level below, with the values the      *)
(* orderings returned.                                                     *)
(***************************************************************************)
IsFirstPass(k, l) == calls[k].call = "first_pass" /\ calls[k].level = l

IsUpdate(k, l, j) ==
    calls[k].call = "update" /\ calls[k].level = l /\ calls[k].index = j

Depth == Len(levels_and_designs)

C10_LowerBeforeUpper ==
    \A k \in 1..Len(calls) : \A u \in 1..(Depth - 1) :
        IsFirstPass(k, u) =>
            /\ \A i \in 1..Len(levels_and_designs[u + 1].design) :
                  \E k1 \in 1..(k - 1) :
                      IsFirstPass(k1, u + 1) /\ calls[k1].index = i
            /\ \A j \in 1..Len(levels_and_designs[u].design) :
                  \E k2 \in 1..(k - 1) :
                      /\ IsUpdate(k2, u, j)
                      /\ \A k1 \in 1..Len(calls) :
                            IsFirstPass(k1, u + 1) =>
                                /\ k1 < k2
                                /\ Range(calls[k1].names)
                                      \subseteq Range(calls[k2].names)

C10_ExactlyOnce ==
    /\ \A k1, k2 \in 1..Len(calls) :
          (/\ calls[k1].call = "first_pass" /\ calls[k2].call = "first_pass"
           /\ calls[k1].level = calls[k2].level
           /\ calls[k1].index = calls[k2].index) => k1 = k2
    /\ pc.phase \in {"check", "done"} =>
          \A l \in 1..Depth : \A i \in 1..Len(levels_and_designs[l].design) :
              \E k \in 1..Len(calls) : IsFirstPass(k, l) /\ calls[k].index = i

C10_InConditions ==
    \A k \in 1..Len(calls) : \A u \in 1..(Depth - 1) :
        IsFirstPass(k, u) =>
            LET conditions ==
                    levels_and_designs[u].design[calls[k].index]
                        .ordering.all_conditions
            IN \A i \in 1..Len(levels_and_designs[u + 1].design) :
                  LET o == levels_and_designs[u + 1].design[i].ordering
                  IN o.non_atomic =>
                        /\ conditions # <<>>
                        /\ \A c \in 1..Len(conditions) :
                              /\ o.iv_name \in DOMAIN conditions[c]
                              /\ conditions[c][o.iv_name] \in Range(o.iv_values)
                        /\ \A v \in Range(o.iv_values) :
                              \E c \in 1..Len(conditions) :
                                  conditions[c][o.iv_name] = v

C10_BottomUp ==
    C10_LowerBeforeUpper /\ C10_ExactlyOnce /\ C10_InConditions

\* a tree of three levels was built, with two designs at the middle level
\* and a non-atomic ordering at the middle and at the bottom level
C10_Witness ==
    /\ pc.phase = "done"
    /\ Depth = 3
    /\ Len(levels_and_designs[2].design) = 2
    /\ \E i \in 1..Len(levels_and_designs[3].design) :
          levels_and_designs[3].design[i].ordering.non_atomic
    /\ \E i \in 1..Len(levels_and_designs[2].design) :
          levels_and_designs[2].design[i].ordering.non_atomic

(***************************************************************************)
(* C11 as stated: once the constructor has resolved the branches of a tree *)
(* whose first bottom-level Design is heterogeneous, every declared branch *)
(* name whose alternate was supplied as a built DesignTree maps to that    *)
(* very tree (same levels, its Designs passed once, same branch map and    *)
(* named alternates); every other declared name maps to the tree built     *)
(* from the raw alternate with the alternates minus that name; a tree that *)
(* is not heterogeneous has an empty branch map.                           *)
(***************************************************************************)
BottomDesign == levels_and_designs[Depth].design[1]

BranchesResolved == pc.phase \notin {"branches", "failed"}

AsTree(alternate) ==
    [levels_and_designs |-> alternate.levels_and_designs,
     branches |-> alternate.branches,
     other_designs |-> alternate.other_designs]

C11_SuppliedTreeReused ==
    BranchesResolved =>
        IF is_heterogeneous(BottomDesign)
        THEN /\ Names(branches) = Range(design_branches(BottomDesign))
             /\ \A b \in Names(branches) :
                   LET alternate == Lookup(other_designs, b)
                   IN IF alternate.is_tree
                      THEN Lookup(branches, b) = AsTree(alternate)
                      ELSE Lookup(branches, b) =
                              DesignTree(alternate.levels_and_designs,
                                         Without(other_designs, b)).tree
        ELSE branches = <<>>

(***************************************************************************)
(* C12: context visibility is one-directional.  In every step, the         *)
(* resolved context of a section that existed before changes only if the   *)
(* section is, or lies below, a section whose own layer the operation      *)
(* writes: the section add_data was called on, or a child of the section   *)
(* an insertion was made into (numbering).  So a write never changes the   *)
(* resolved context of an ancestor, of a sibling of the written section or *)
(* of a sibling's descendants; and the section written by add_data sees    *)
(* the value itself.                                                       *)
(***************************************************************************)
WrittenBy(op, arena) ==
    IF op.op = "add_data" THEN {op.s}
    ELSE IF op.op \in {"append_design", "append_child"}
    THEN Range(arena[op.s].children)
    ELSE {}

C12_Step ==
    /\ Len(sections') >= Len(sections)
    /\ \A m \in 1..Len(sections) :
          /\ sections'[m].parent = sections[m].parent
          /\ Context(sections', m) # Context(sections, m) =>
                PathUp(sections', m) \cap WrittenBy(lastOp', sections') # {}
    /\ lastOp'.op = "add_data" =>
          Context(sections', lastOp'.s)[lastAdd'.k] = lastAdd'.v

C12_OneDirectional == [][C12_Step]_vars

\* add_data was called on a section that has a sibling: the section sees
\* the value, the sibling and the parent do not hold the key
C12_Witness ==
    /\ lastOp.op = "add_data"
    /\ lastAdd.s # 1
    /\ lastAdd.k = "note"
    /\ LET s == lastAdd.s
           p == sections[s].parent
       IN /\ Context(sections, s)["note"] = lastAdd.v
          /\ "note" \notin DOMAIN Context(sections, p)
          /\ \E sib \in Range(sections[p].children) :
                /\ sib # s
                /\ "note" \notin DOMAIN Context(sections, sib)
                /\ sections[sib].children # <<>>

(***************************************************************************)
(* C13 as stated: construction is all-or-nothing.  When the constructor,   *)
(* append_design or append_child raises, no section has been added and the *)
(* children sequence and the numbering of every section are as they were   *)
(* before the call.                                                        *)
(***************************************************************************)
C13_Step ==
    (lastOp'.op \in {"construct", "append_design", "append_child"}
        /\ err' # "none") =>
            sections' = sections

C13_AllOrNothing == [][C13_Step]_vars

(***************************************************************************)
(* C14: next() on a tree without branches and of length L >= 2 returns a   *)
(* distinct tree object of length L - 1 and leaves the source's levels,    *)
(* branch map and length as they were; on a tree of length 1 it stops.  No *)
(* next() call changes an existing tree object, and add_base_level on the  *)
(* source changes the source only: the trees obtained from it by earlier   *)
(* peels stay as they were returned.                                       *)
(***************************************************************************)
C14_Shortens ==
    \A p \in 1..Len(peels) :
        LET c == peels[p]
            L == DesignTreeLen(c.before)
        IN c.before.branches = <<>> =>
              /\ c.after = c.before
              /\ DesignTreeLen(c.after) = L
              /\ IF L = 1 THEN c.kind = "StopIteration"
                 ELSE /\ c.kind = "tree"
                      /\ c.id # c.src
                      /\ DesignTreeLen(c.tree) = L - 1
                      /\ c.tree.levels_and_designs =
                            Tail(c.before.levels_and_designs)

C14_Frame ==
    /\ lastTree'.op = "next" /\ peels' # peels =>
          \A j \in 1..Len(heap) : heap'[j] = heap[j]
    /\ lastTree'.op = "add_base_level" /\ heap' # heap =>
          /\ DesignTreeLen(heap'[1]) = DesignTreeLen(heap[1]) + 1
          /\ \A p \in 1..Len(peels) :
                peels[p].kind = "tree" =>
                    heap'[peels[p].id] = peels[p].tree

C14_PeelFrame == [](C14_Shortens) /\ [][C14_Frame]_vars

\* a tree of three levels was peeled twice in succession, the third peel
\* stopped, and the source has had add_base_level since the first peel
C14_Witness ==
    /\ Len(peels) = 3
    /\ peels[1].src = 1 /\ peels[1].before.branches = <<>>
    /\ DesignTreeLen(peels[1].before) = 3
    /\ peels[2].src = peels[1].id
    /\ peels[3].src = peels[2].id
    /\ peels[3].kind = "StopIteration"
    /\ lastTree.op = "add_base_level"
    /\ Len(heap[1].levels_and_designs) = 4
    /\ heap[peels[1].id] = peels[1].tree

====
